---- MODULE Spec2Model ----
(***************************************************************************)
(* generate_ico.py: one image is converted into four single-size ICO       *)
(* files.  The model follows main() and generate_ico() statement by        *)
(* statement.  Strings are sequences of one-character strings so that      *)
(* os.path.splitext and the f-string that builds the output file name are  *)
(* computed, not assumed.  The file system is a function from the paths    *)
(* that exist to their content.                                            *)
(***************************************************************************)
EXTENDS Integers, Sequences, FiniteSets, TLC

VARIABLES argv, pc, input_path, output_path, base_name, img, resized, idx,
          disk, disk0, console, result, exitCode, term, ctx, closed,
          openCalls, fsLog

vars == <<argv, pc, input_path, output_path, base_name, img, resized, idx,
          disk, disk0, console, result, exitCode, term, ctx, closed,
          openCalls, fsLog>>

-----------------------------------------------------------------------------
(* Bounds of the model *)

\* longest command-line argument enumerated character by character
MaxLen == 2

\* characters of the enumerated arguments: a letter, the extension
\* separator and the POSIX directory separator
Chars == {"a", ".", "/"}

\* all strings over Chars of length at most n
Strs(n) == UNION {[1..k -> Chars] : k \in 0..n}

\* None (python) for a string-valued variable; not a string over Chars
None == <<"<None>">>

\* no bitmap bound yet
NoImg == [mode |-> "-", w |-> 0, h |-> 0, from |-> <<>>]

-----------------------------------------------------------------------------
(* Strings *)

\* str.rfind, 1-based: the last index of c in p, 0 when absent
RFind(p, c) ==
    LET hits == {k \in 1..Len(p) : p[k] = c}
    IN  IF hits = {} THEN 0 ELSE CHOOSE k \in hits : \A j \in hits : j <= k

\* os.path.splitext(p)[0] (posixpath: sep "/", extsep "."); a dot counts
\* only after the last separator and after a character of the file name
\* that is not itself a dot
SplitExtRoot(p) ==
    LET sepIndex == RFind(p, "/")
        dotIndex == RFind(p, ".")
    IN  IF /\ dotIndex > sepIndex
           /\ \E k \in (sepIndex + 1)..(dotIndex - 1) : p[k] # "."
        THEN SubSeq(p, 1, dotIndex - 1)
        ELSE p

Digit(d) == CASE d = 0 -> "0" [] d = 1 -> "1" [] d = 2 -> "2" [] d = 3 -> "3"
              [] d = 4 -> "4" [] d = 5 -> "5" [] d = 6 -> "6" [] d = 7 -> "7"
              [] d = 8 -> "8" [] d = 9 -> "9"

RECURSIVE IntStr(_)
\* the decimal text of a natural number, as an f-string formats it
IntStr(n) == IF n < 10 THEN <<Digit(n)>>
             ELSE Append(IntStr(n \div 10), Digit(n % 10))

\* python truthiness of an optional string: None and "" are false
Truthy(s) == s # None /\ s # <<>>

-----------------------------------------------------------------------------
(* Values of the program *)

\* mutant: the loop runs from the largest size down
sizesDescending == << <<256, 256>>, <<128, 128>>, <<64, 64>>, <<32, 32>> >>

\* sizes (line 48): the target sizes, in the order of the loop
sizes == << <<32, 32>>, <<64, 64>>, <<128, 128>>, <<256, 256>> >>

\* max_size (line 51)
max_size == 256

\* pixel modes and side lengths of the images the input file may hold
Modes == {"RGBA", "RGB"}
Dims == {32, 256}

\* the content of a file: an image file, a directory, bytes that are no
\* image, an ICO container, or a file left half written
File(kind, mode, frames, src) ==
    [kind |-> kind, mode |-> mode, frames |-> frames, src |-> src]

ImageFile(mode, w, h) == File("image", mode, << <<w, h>> >>, <<>>)
JunkFile == File("junk", "-", <<>>, <<>>)
DirEntry == File("dir", "-", <<>>, <<>>)
PartialFile == File("partial", "-", <<>>, <<>>)

ImageFiles == {ImageFile(m, w, h) : m \in Modes, w \in Dims, h \in Dims}

\* mutant: the existence check lets every path through
PathExistsAlways(d, p) == TRUE

\* line 30: os.path.exists(p) on the file system d
PathExists(d, p) == p \in DOMAIN d

\* d with content c at path p (created or overwritten)
WriteFile(d, p, c) == [q \in DOMAIN d \cup {p} |-> IF q = p THEN c ELSE d[q]]

\* lines 35-38: the stem of the output file names
BaseNameOf(inp, out) ==
    IF Truthy(out) THEN SplitExtRoot(out) ELSE SplitExtRoot(inp)

\* mutant: the size is left out of the file name
OutputFileNoSize(base, size) == base \o <<".", "i", "c", "o">>

\* line 59: f"{base_name}_{size[0]}.ico"
OutputFile(base, size) ==
    base \o <<"_">> \o IntStr(size[1]) \o <<".", "i", "c", "o">>

\* line 44: img.mode != 'RGBA'
NeedsConvert(im) == im.mode # "RGBA"

\* mutant: and in place of or
NeedsResizeBoth(im) == im.w # max_size /\ im.h # max_size

\* line 52: img.size[0] != max_size or img.size[1] != max_size
NeedsResize(im) == im.w # max_size \/ im.h # max_size

\* Image.open: the bitmap decoded from an image file
Decoded(f) ==
    [mode |-> f.mode, w |-> f.frames[1][1], h |-> f.frames[1][2],
     from |-> << <<"open", f.frames[1][1], f.frames[1][2]>> >>]

\* Image.convert(mode): a new bitmap of the same size in the given mode
Convert(im, mode) ==
    [im EXCEPT !.mode = mode, !.from = Append(@, <<"convert", im.w, im.h>>)]

\* Image.resize(size, LANCZOS): a new bitmap of the given size, same mode
Resize(im, size) ==
    [im EXCEPT !.w = size[1], !.h = size[2],
               !.from = Append(@, <<"resize", size[1], size[2]>>)]

\* mutant: each pass resizes the output of the pass before
LoopSourcePrevious(cur, prev) == IF prev = NoImg THEN cur ELSE prev

\* line 58: the bitmap one pass of the loop resizes
LoopSource(cur, prev) == cur

\* mutant: the sizes argument is ignored and the container gets every
\* default size that fits
IcoFileDefaultSizes(im, szs) ==
    File("ico", im.mode,
         SelectSeq(<< <<16, 16>>, <<24, 24>>, <<32, 32>>, <<48, 48>>,
                      <<64, 64>>, <<128, 128>>, <<256, 256>> >>,
                   LAMBDA s : s[1] <= im.w /\ s[2] <= im.h),
         im.from)

\* Image.save(format='ICO', sizes=szs): the container holds one frame for
\* each requested size that fits the bitmap and the format's 256 limit
IcoFile(im, szs) ==
    File("ico", im.mode,
         SelectSeq(szs, LAMBDA s : s[1] <= im.w /\ s[2] <= im.h
                                   /\ s[1] <= 256 /\ s[2] <= 256),
         im.from)

\* mutant: the block closes whatever img is bound to when it is left
WithExitClosesCurrent(cl, cm, cur) == cl \cup {cur.from}

\* the with statement closes the object Image.open returned, whatever the
\* name img is bound to by then
WithExit(cl, cm, cur) == cl \cup {cm}

\* exception classes the library calls raise; all derive from Exception
OpenErrors == {"FileNotFoundError", "IsADirectoryError",
               "UnidentifiedImageError", "OSError"}
StepErrors == {"OSError", "MemoryError", "ValueError"}
SaveOpenErrors == {"PermissionError", "FileNotFoundError"}
SaveWriteErrors == {"OSError"}

\* mutant: except OSError
CaughtOSErrorOnly(exc) ==
    exc \in {"FileNotFoundError", "IsADirectoryError", "PermissionError",
             "UnidentifiedImageError", "OSError"}

\* line 66: except Exception
Caught(exc) == exc \in OpenErrors \cup StepErrors \cup SaveOpenErrors
                       \cup SaveWriteErrors

\* mutant: the two exit codes are swapped
ExitCodeSwapped(success) == IF success = "True" THEN 1 ELSE 0

\* line 86: 0 if success else 1
ExitCode(success) == IF success = "True" THEN 0 ELSE 1

-----------------------------------------------------------------------------
(* Initial states: a command line and a file system *)

\* an input path that is itself one of the output names of stem "a"
AliasInputs == { <<"a", "_", "3", "2", ".", "i", "c", "o">>,
                 <<"a", "_", "1", "2", "8", ".", "i", "c", "o">> }

InputPaths == Strs(MaxLen) \cup AliasInputs
OutputBases == Strs(MaxLen)

\* the positional arguments, sys.argv[1:]
Argvs == {<<>>} \cup {<<p>> : p \in InputPaths}
                \cup {<<p, o>> : p \in InputPaths, o \in OutputBases}

\* the output paths a run with these arguments will use
OutputPathsOf(a) ==
    IF a = <<>> THEN {}
    ELSE LET out == IF Len(a) > 1 THEN a[2] ELSE None
         IN  {OutputFile(BaseNameOf(a[1], out), sizes[k]) : k \in 1..Len(sizes)}

\* which output paths hold a file before the run: none, all of them, or
\* the one of the third size alone
PreExisting(a) ==
    {{}, OutputPathsOf(a)}
    \cup (IF a = <<>> THEN {}
          ELSE {{OutputFile(BaseNameOf(a[1], IF Len(a) > 1 THEN a[2] ELSE None),
                            sizes[3])}})

\* what the input path holds before the run, "absent" for nothing
InputContents == {DirEntry, JunkFile} \cup ImageFiles

Init ==
    /\ argv \in Argvs
    /\ \E pre \in PreExisting(argv) :
         LET d == [q \in pre |-> JunkFile]
         IN  \/ disk = d
             \/ /\ argv # <<>>
                /\ \E c \in InputContents : disk = WriteFile(d, argv[1], c)
    /\ disk0 = disk
    /\ pc = "main"
    /\ input_path = None
    /\ output_path = None
    /\ base_name = None
    /\ img = NoImg
    /\ resized = NoImg
    /\ idx = 1
    /\ console = <<>>
    /\ result = "unset"
    /\ exitCode = -1
    /\ term = "running"
    /\ ctx = <<>>
    /\ closed = {}
    /\ openCalls = 0
    /\ fsLog = <<>>

-----------------------------------------------------------------------------
(* main, lines 71-86 *)

\* lines 73-80: no positional argument: usage text, sys.exit(1)
MainUsage ==
    /\ pc = "main"
    /\ Len(argv) < 1
    /\ console' = Append(console, <<"usage">>)
    /\ exitCode' = 1
    /\ term' = "sys.exit"
    /\ pc' = "exited"
    /\ UNCHANGED <<argv, input_path, output_path, base_name, img, resized,
                   idx, disk, disk0, result, ctx, closed, openCalls, fsLog>>

\* lines 82-85: the arguments are bound and generate_ico is entered
MainCall ==
    /\ pc = "main"
    /\ ~(Len(argv) < 1)
    /\ input_path' = argv[1]
    /\ output_path' = IF Len(argv) > 1 THEN argv[2] ELSE None
    /\ pc' = "exists"
    /\ UNCHANGED <<argv, base_name, img, resized, idx, disk, disk0, console,
                   result, exitCode, term, ctx, closed, openCalls, fsLog>>

\* line 86: sys.exit(0 if success else 1)
MainExit ==
    /\ pc = "ret"
    /\ exitCode' = ExitCode(result)
    /\ term' = "sys.exit"
    /\ pc' = "exited"
    /\ UNCHANGED <<argv, input_path, output_path, base_name, img, resized,
                   idx, disk, disk0, console, result, ctx, closed, openCalls,
                   fsLog>>

-----------------------------------------------------------------------------
(* generate_ico, lines 21-68 *)

\* an exception exc raised inside the try block; inWith when the with
\* statement has been entered.  The with block is left first (the opened
\* image is closed), then line 66 catches exc, prints it and returns
\* False; an exception it does not catch leaves generate_ico and main and
\* ends the process with a traceback and status 1.
Raise(exc, inWith) ==
    /\ closed' = IF inWith THEN WithExit(closed, ctx, img) ELSE closed
    /\ IF Caught(exc)
       THEN /\ console' = Append(console, <<"error">>)
            /\ result' = "False"
            /\ pc' = "ret"
            /\ UNCHANGED <<exitCode, term>>
       ELSE /\ exitCode' = 1
            /\ term' = "traceback"
            /\ pc' = "exited"
            /\ UNCHANGED <<console, result>>

\* lines 30-32: the existence check
CheckExists ==
    /\ pc = "exists"
    /\ IF ~PathExists(disk, input_path)
       THEN /\ console' = Append(console, <<"notfound">>)
            /\ result' = "False"
            /\ pc' = "ret"
       ELSE /\ pc' = "base"
            /\ UNCHANGED <<console, result>>
    /\ UNCHANGED <<argv, input_path, output_path, base_name, img, resized,
                   idx, disk, disk0, exitCode, term, ctx, closed, openCalls,
                   fsLog>>

\* lines 35-38: the stem of the output names
DeriveBase ==
    /\ pc = "base"
    /\ base_name' = BaseNameOf(input_path, output_path)
    /\ pc' = "open"
    /\ UNCHANGED <<argv, input_path, output_path, img, resized, idx, disk,
                   disk0, console, result, exitCode, term, ctx, closed,
                   openCalls, fsLog>>

\* line 42: Image.open(input_path) and entry of the with block.  The
\* file is opened for reading first (that fails for a missing path and for
\* a directory), then its header is decoded.
OpenImage ==
    /\ pc = "open"
    /\ openCalls' = openCalls + 1
    /\ \/ /\ input_path \notin DOMAIN disk
          /\ Raise("FileNotFoundError", FALSE)
          /\ UNCHANGED <<img, ctx>>
       \/ /\ input_path \in DOMAIN disk
          /\ disk[input_path].kind = "dir"
          /\ Raise("IsADirectoryError", FALSE)
          /\ UNCHANGED <<img, ctx>>
       \/ /\ input_path \in DOMAIN disk
          /\ disk[input_path].kind \in {"junk", "partial"}
          /\ Raise("UnidentifiedImageError", FALSE)
          /\ UNCHANGED <<img, ctx>>
       \/ /\ input_path \in DOMAIN disk
          /\ disk[input_path].kind \in {"image", "ico"}
          /\ \/ /\ Raise("OSError", FALSE)
                /\ UNCHANGED <<img, ctx>>
             \/ /\ img' = Decoded(disk[input_path])
                /\ ctx' = img'.from
                /\ pc' = "convert"
                /\ UNCHANGED <<console, result, exitCode, term, closed>>
    /\ UNCHANGED <<argv, input_path, output_path, base_name, resized, idx,
                   disk, disk0, fsLog>>

\* lines 44-45: normalisation to RGBA
ConvertMode ==
    /\ pc = "convert"
    /\ IF NeedsConvert(img)
       THEN \/ /\ img' = Convert(img, "RGBA")
               /\ pc' = "canon"
               /\ UNCHANGED <<console, result, exitCode, term, closed>>
            \/ /\ \E exc \in StepErrors : Raise(exc, TRUE)
               /\ UNCHANGED img
       ELSE /\ pc' = "canon"
            /\ UNCHANGED <<img, console, result, exitCode, term, closed>>
    /\ UNCHANGED <<argv, input_path, output_path, base_name, resized, idx,
                   disk, disk0, ctx, openCalls, fsLog>>

\* lines 52-54: the canonical resize, announced before it is done
CanonicalResize ==
    /\ pc = "canon"
    /\ IF NeedsResize(img)
       THEN LET told == Append(console, <<"adjust", img.w, img.h,
                                          max_size, max_size>>)
            IN  \/ /\ img' = Resize(img, <<max_size, max_size>>)
                   /\ console' = told
                   /\ pc' = "loop"
                   /\ UNCHANGED <<result, exitCode, term, closed>>
                \/ /\ \E exc \in StepErrors :
                        /\ closed' = WithExit(closed, ctx, img)
                        /\ IF Caught(exc)
                           THEN /\ console' = Append(told, <<"error">>)
                                /\ result' = "False"
                                /\ pc' = "ret"
                                /\ UNCHANGED <<exitCode, term>>
                           ELSE /\ console' = told
                                /\ exitCode' = 1
                                /\ term' = "traceback"
                                /\ pc' = "exited"
                                /\ UNCHANGED result
                   /\ UNCHANGED img
       ELSE /\ pc' = "loop"
            /\ UNCHANGED <<img, console, result, exitCode, term, closed>>
    /\ UNCHANGED <<argv, input_path, output_path, base_name, resized, idx,
                   disk, disk0, ctx, openCalls, fsLog>>

\* line 58: resized = img.resize(size, LANCZOS) for the next size
LoopResize ==
    /\ pc = "loop"
    /\ idx <= Len(sizes)
    /\ \/ /\ resized' = Resize(LoopSource(img, resized), sizes[idx])
          /\ pc' = "save"
          /\ UNCHANGED <<console, result, exitCode, term, closed>>
       \/ /\ \E exc \in StepErrors : Raise(exc, TRUE)
          /\ UNCHANGED resized
    /\ UNCHANGED <<argv, input_path, output_path, base_name, img, idx, disk,
                   disk0, ctx, openCalls, fsLog>>

\* lines 59-61: the file name, resized.save(...) and the notice.  save
\* opens the path for writing (truncating it) and then encodes into it;
\* when encoding fails, a file that save created is removed again by the
\* library or left half written (library version), one that existed
\* before stays truncated.
SaveIco ==
    /\ pc = "save"
    /\ LET output_file == OutputFile(base_name, sizes[idx])
       IN  \/ /\ disk' = WriteFile(disk, output_file,
                                   IcoFile(resized, <<sizes[idx]>>))
              /\ fsLog' = Append(fsLog, <<output_file, "saved">>)
              /\ console' = Append(console, <<"generated", output_file,
                                              sizes[idx][1], sizes[idx][2]>>)
              /\ idx' = idx + 1
              /\ pc' = "loop"
              /\ UNCHANGED <<result, exitCode, term, closed>>
           \/ /\ \E exc \in SaveOpenErrors : Raise(exc, TRUE)
              /\ UNCHANGED <<disk, fsLog, idx>>
           \/ /\ \E exc \in SaveWriteErrors : Raise(exc, TRUE)
              /\ \/ /\ disk' = WriteFile(disk, output_file, PartialFile)
                    /\ fsLog' = Append(fsLog, <<output_file, "partial">>)
                 \/ /\ output_file \notin DOMAIN disk
                    /\ disk' = disk
                    /\ fsLog' = Append(fsLog, <<output_file, "removed">>)
              /\ UNCHANGED idx
    /\ UNCHANGED <<argv, input_path, output_path, base_name, img, resized,
                   disk0, ctx, openCalls>>

\* lines 63-64: the summary, the end of the with block, return True
Finish ==
    /\ pc = "loop"
    /\ idx > Len(sizes)
    /\ console' = Append(console, <<"summary", Len(sizes)>>)
    /\ closed' = WithExit(closed, ctx, img)
    /\ result' = "True"
    /\ pc' = "ret"
    /\ UNCHANGED <<argv, input_path, output_path, base_name, img, resized,
                   idx, disk, disk0, exitCode, term, ctx, openCalls, fsLog>>

Next ==
    \/ MainUsage
    \/ MainCall
    \/ CheckExists
    \/ DeriveBase
    \/ OpenImage
    \/ ConvertMode
    \/ CanonicalResize
    \/ LoopResize
    \/ SaveIco
    \/ Finish
    \/ MainExit

Spec == Init /\ [][Next]_vars

-----------------------------------------------------------------------------
(* Vocabulary of the properties, spelled out independently of the        *)
(* definitions above                                                      *)

\* the four output names of a stem, in the order 32, 64, 128, 256
ExpectedNames(stem) ==
    << stem \o <<"_", "3", "2", ".", "i", "c", "o">>,
       stem \o <<"_", "6", "4", ".", "i", "c", "o">>,
       stem \o <<"_", "1", "2", "8", ".", "i", "c", "o">>,
       stem \o <<"_", "2", "5", "6", ".", "i", "c", "o">> >>

ExpectedNameSet(stem) == {ExpectedNames(stem)[k] : k \in 1..4}

\* the side lengths in the same order
ExpectedSides == <<32, 64, 128, 256>>

\* generate_ico has returned
Returned == pc \in {"ret", "exited"} /\ result # "unset"

\* path p holds the same thing (or nothing) in both file systems
SameAt(d1, d2, p) ==
    /\ (p \in DOMAIN d1) = (p \in DOMAIN d2)
    /\ p \in DOMAIN d1 => d1[p] = d2[p]

\* the k-th output of this run is on disk: a container with exactly one
\* image, of the k-th side length
HoldsIcon(k) ==
    LET p == ExpectedNames(base_name)[k]
    IN  /\ p \in DOMAIN disk
        /\ disk[p].kind = "ico"
        /\ disk[p].frames = << <<ExpectedSides[k], ExpectedSides[k]>> >>

\* the run has written all four outputs
AllFourWritten ==
    /\ Len(fsLog) = 4
    /\ \A k \in 1..4 : fsLog[k] = <<ExpectedNames(base_name)[k], "saved">>
    /\ \A k \in 1..4 : HoldsIcon(k)

\* the console shows the message m
Shown(m) == \E k \in 1..Len(console) : console[k] = m

\* the console shows a message of the kind tag
ShownKind(tag) == \E k \in 1..Len(console) : console[k][1] = tag

-----------------------------------------------------------------------------
(* C1 *)

\* C1: when the input path does not exist, generate_ico returns False,
\* Image.open is never called, and the file system stays exactly as it was.
C1_NotFoundLeavesDiskAlone ==
    (input_path # None /\ input_path \notin DOMAIN disk0) =>
        /\ pc \in {"exists", "ret", "exited"}
        /\ openCalls = 0
        /\ fsLog = <<>>
        /\ disk = disk0
        /\ pc \in {"ret", "exited"} => result = "False"

C1_Witness ==
    /\ pc = "ret"
    /\ input_path \notin DOMAIN disk0
    /\ DOMAIN disk0 # {}
    /\ result = "False"
    /\ Shown(<<"notfound">>)

-----------------------------------------------------------------------------
(* C2 *)

\* C2: whenever generate_ico has returned True, this run has written
\* exactly four files, at {stem}_32.ico, {stem}_64.ico, {stem}_128.ico and
\* {stem}_256.ico, each holding a single image of its size, whether or not
\* a file was there before.
C2_SuccessMeansFourIcons ==
    result = "True" => AllFourWritten

C2_Witness ==
    /\ result = "True"
    /\ AllFourWritten
    /\ \A k \in 1..4 : ExpectedNames(base_name)[k] \in DOMAIN disk0

-----------------------------------------------------------------------------
(* C3 *)

\* C3 (as stated): once the stem is derived, it is the output base without
\* its extension whenever an output base was supplied, and the input path
\* without its extension otherwise; every file the run writes carries it.
C3_StemFromSuppliedBase ==
    base_name # None =>
        /\ base_name = IF output_path # None
                       THEN SplitExtRoot(output_path)
                       ELSE SplitExtRoot(input_path)
        /\ \A k \in 1..Len(fsLog) : fsLog[k][1] \in ExpectedNameSet(base_name)

-----------------------------------------------------------------------------
(* C4 *)

\* C4: the process ends with exit code 0 exactly when all four files were
\* written, and with 1 otherwise; with no positional argument it prints
\* the usage text, converts nothing and ends with 1.
C4_ExitCode ==
    pc = "exited" =>
        /\ exitCode \in {0, 1}
        /\ (exitCode = 0) = (result = "True" /\ AllFourWritten)
        /\ argv = <<>> => /\ exitCode = 1
                          /\ console = << <<"usage">> >>
                          /\ result = "unset"
                          /\ openCalls = 0
                          /\ disk = disk0
        /\ (argv # <<>> /\ argv[1] \notin DOMAIN disk0) => exitCode = 1
        /\ result = "False" => exitCode = 1

C4_Witness ==
    /\ pc = "exited"
    /\ exitCode = 0
    /\ AllFourWritten

-----------------------------------------------------------------------------
(* C5 *)

\* C5: a failure of any step inside the try block ends in generate_ico
\* returning False; the process never ends with a traceback, only through
\* sys.exit in main.
C5_FailuresAreCaught ==
    /\ term # "traceback"
    /\ pc = "exited" => term = "sys.exit" /\ exitCode \in {0, 1}
    /\ ShownKind("error") => Returned /\ result = "False"

C5_Witness ==
    /\ pc = "exited"
    /\ term = "sys.exit"
    /\ exitCode = 1
    /\ ShownKind("error")
    /\ Len(fsLog) = 2
    /\ fsLog[2][2] = "partial"

-----------------------------------------------------------------------------
(* C6 *)

\* C6: the files the run has touched are, in order, the first ones of
\* {stem}_32.ico, {stem}_64.ico, {stem}_128.ico, {stem}_256.ico.  All but
\* possibly the last touched were saved whole and are on disk as written,
\* also after a later size failed; the paths of the sizes not reached
\* hold what they held before the run; a run that ends without all four
\* saved returns False.
C6_OrderedPrefixNoRollback ==
    /\ Len(fsLog) <= 4
    /\ \A k \in 1..Len(fsLog) : fsLog[k][1] = ExpectedNames(base_name)[k]
    /\ \A k \in 1..Len(fsLog) :
         (k < Len(fsLog) \/ fsLog[k][2] = "saved") =>
             fsLog[k][2] = "saved" /\ HoldsIcon(k)
    /\ \A k \in (Len(fsLog) + 1)..4 :
         SameAt(disk, disk0, ExpectedNames(base_name)[k])
    /\ (Returned /\ ~AllFourWritten) => result = "False"

C6_Witness ==
    /\ pc = "exited"
    /\ result = "False"
    /\ Len(fsLog) = 3
    /\ fsLog[3][2] = "partial"
    /\ HoldsIcon(1) /\ HoldsIcon(2)
    /\ ExpectedNames(base_name)[4] \notin DOMAIN disk

-----------------------------------------------------------------------------
(* C7 *)

\* the side lengths of the image as decoded
DecodedW == ctx[1][2]
DecodedH == ctx[1][3]
DecodedDiffers == DecodedW # 256 \/ DecodedH # 256

\* C7: once the per-size loop is reached, the size notice has been printed
\* and the working bitmap has been resized to 256x256 if and only if the
\* decoded image was not 256x256, the notice names the decoded and the
\* target size, and a run that succeeds has produced all four outputs
\* either way; no notice is ever printed for a 256x256 image.
C7_ResizeIffNot256 ==
    /\ ShownKind("adjust") =>
           /\ ctx # <<>>
           /\ DecodedDiffers
           /\ Shown(<<"adjust", DecodedW, DecodedH, 256, 256>>)
    /\ (pc \in {"loop", "save"} \/ result = "True") =>
           /\ DecodedDiffers = ShownKind("adjust")
           /\ DecodedDiffers =
                (\E k \in 1..Len(img.from) : img.from[k] = <<"resize", 256, 256>>)
           /\ img.w = 256 /\ img.h = 256
           /\ result = "True" => AllFourWritten

C7_Witness ==
    /\ result = "True"
    /\ ctx # <<>>
    /\ ~DecodedDiffers
    /\ ~ShownKind("adjust")
    /\ AllFourWritten

-----------------------------------------------------------------------------
(* C8 *)

\* C8: while the loop runs, and after it, the working bitmap is RGBA and
\* 256x256 and has never been through a per-size resize; the bitmap about
\* to be saved and every file already saved are one resize away from that
\* same working bitmap.
C8_AllFromCanonical ==
    (pc \in {"loop", "save"} \/ (Returned /\ fsLog # <<>>)) =>
        /\ img.mode = "RGBA"
        /\ img.w = 256 /\ img.h = 256
        /\ \A j \in 2..Len(img.from) :
             img.from[j] \in {<<"convert", DecodedW, DecodedH>>,
                              <<"resize", 256, 256>>}
        /\ img.from[1] = ctx[1]
        /\ pc = "save" =>
             resized = [mode |-> "RGBA", w |-> ExpectedSides[idx],
                        h |-> ExpectedSides[idx],
                        from |-> Append(img.from, <<"resize", ExpectedSides[idx],
                                                    ExpectedSides[idx]>>)]
        /\ \A k \in 1..Len(fsLog) :
             fsLog[k][2] = "saved" =>
                 /\ disk[fsLog[k][1]].mode = "RGBA"
                 /\ disk[fsLog[k][1]].src =
                        Append(img.from, <<"resize", ExpectedSides[k],
                                           ExpectedSides[k]>>)

C8_Witness ==
    /\ pc = "save"
    /\ idx = 4
    /\ Len(fsLog) = 3
    /\ Len(img.from) = 3
    /\ Decoded(disk0[input_path]).mode = "RGB"

-----------------------------------------------------------------------------
(* C9 *)

\* C9: when generate_ico has returned, or the process has ended, the image
\* Image.open returned is closed, whatever img is bound to by then; when
\* the input path does not exist no image is opened.
C9_OpenedImageReleased ==
    /\ (pc \in {"ret", "exited"} /\ ctx # <<>>) => ctx \in closed
    /\ (input_path # None /\ input_path \notin DOMAIN disk0) =>
           openCalls = 0 /\ ctx = <<>>
    /\ ctx = <<>> => closed = {}

C9_Witness ==
    /\ pc = "ret"
    /\ result = "False"
    /\ ctx # <<>>
    /\ img.from # ctx
    /\ ctx \in closed

-----------------------------------------------------------------------------
(* C10 *)

\* C10: every path other than the four output names of the stem holds
\* after any step what it held before the run, the input file included,
\* no path outside those four comes into existence, and every file
\* system write of the run is to one of the four.
C10_OnlyTheFourPaths ==
    /\ \A p \in (DOMAIN disk \cup DOMAIN disk0) \ ExpectedNameSet(base_name) :
         SameAt(disk, disk0, p)
    /\ \A k \in 1..Len(fsLog) : fsLog[k][1] \in ExpectedNameSet(base_name)

C10_Witness ==
    /\ result = "True"
    /\ AllFourWritten
    /\ input_path \notin ExpectedNameSet(base_name)
    /\ disk[input_path] = disk0[input_path]
    /\ DOMAIN disk = {input_path} \cup ExpectedNameSet(base_name)

====
